---- MODULE Spec2Model ----
(***************************************************************************)
(* AsyncArduino (async.h): the cooperative scheduler Async<F> and its task *)
(* record function<F>.  The registry is the array `tasks` of m_size slots, *)
(* of which the first curr_size are live.  run_until_complete is modelled  *)
(* by three actions: the call (the first test of the while condition), the *)
(* first half of an iteration (callback, reschedule or remove, sort) and   *)
(* the second half (the break test, the elapsed time, wait and offset).    *)
(***************************************************************************)
EXTENDS Integers, Sequences, FiniteSets, TLC

\* ---------------------------------------------------------------- bounds
\* The tasks a caller keeps registered at once in Spec and FairSpec.
MaxTasks == 3
\* The largest delay a caller sets and the largest value a callback returns.
MaxDelay == 2
\* The largest micros() - begin reading and the largest offset a caller passes.
MaxElapsed == 2
\* The invocation at which a callback returns 0 at the latest.
MaxStep == 2

\* ------------------------------------------------------ program constants
MAX_FUNCTIONARRAY_SIZE == 32

\* tasks, curr_size, m_size: the members of Async<F>; tasks is the array of
\*     m_size slots, indexed from 0.
\* pc: "idle" outside run_until_complete, "exec" at the top of a loop
\*     iteration, "timing" after the iteration's sort.
\* start: the live tasks as they were when run_until_complete was called.
\* trace: the invocations of that run, in order: the id and the step handed
\*     to the callback, and what it returned.
\* last: the operation last carried out and what it did.
\* addsOnly: the number of add calls so far while nothing else has been
\*     called on the scheduler (up to one past the ceiling), -1 afterwards.
\* The delays, steps and ids are unsigned long in the source; the bounds keep
\* every value far from its width.
VARIABLES tasks, curr_size, m_size, pc, start, trace, last, addsOnly

vars == <<tasks, curr_size, m_size, pc, start, trace, last, addsOnly>>

\* A default-constructed function<F> (the member initialisers).
Default == [func |-> "nullptr", delay |-> 0, step |-> 1, id |-> 0]

\* function<F>::function(F), then set_delay (microseconds) and setId.
NewTask(fn, d, i) == [Default EXCEPT !.func = fn, !.delay = d, !.id = i]

\* ------------------------------------------------------------ function<F>
\* function::swap, with the step left behind.
swapNoStep(this, other) ==
    << [func |-> other.func, step |-> this.step, delay |-> other.delay, id |-> other.id],
       [func |-> this.func, step |-> other.step, delay |-> this.delay, id |-> this.id] >>

\* function::swap: the four fields are exchanged one by one; the result is
\* the pair <<this, other>> after the call.
swap(this, other) ==
    << [func |-> other.func, step |-> other.step, delay |-> other.delay, id |-> other.id],
       [func |-> this.func, step |-> this.step, delay |-> this.delay, id |-> this.id] >>

\* function::operator=(function<F> other): other is a copy, swapped in.
assign(this, other) == swap(this, other)[1]

\* ------------------------------------------------------------- Async<F>
\* The registry as a value: what the operations below take and return.
Self == [tasks |-> tasks, curr_size |-> curr_size, m_size |-> m_size]

\* new function<F>[n]
newArray(n) == [i \in 0 .. n - 1 |-> Default]

\* tasks[i].swap(tasks[j]) with the delay alone exchanged.
swapSlotsDelayOnly(arr, i, j) ==
    IF i = j THEN arr
    ELSE [arr EXCEPT ![i] = [arr[i] EXCEPT !.delay = arr[j].delay],
                     ![j] = [arr[j] EXCEPT !.delay = arr[i].delay]]

\* tasks[i].swap(tasks[j])
swapSlots(arr, i, j) ==
    LET p == swap(arr[i], arr[j])
    IN  IF i = j THEN arr ELSE [arr EXCEPT ![i] = p[1], ![j] = p[2]]

\* Async::allocate copying one task too few.
allocateDropLast(a, newSize) ==
    LET newTasks == [i \in 0 .. newSize - 1 |->
                        IF newSize > a.m_size /\ i < a.curr_size - 1
                        THEN assign(Default, a.tasks[i])
                        ELSE Default]
    IN  [a EXCEPT !.tasks = newTasks, !.m_size = newSize]

\* Async::allocate
allocate(a, newSize) ==
    LET newTasks == [i \in 0 .. newSize - 1 |->
                        IF newSize > a.m_size /\ i < a.curr_size
                        THEN assign(Default, a.tasks[i])
                        ELSE Default]
    IN  [a EXCEPT !.tasks = newTasks, !.m_size = newSize]

\* Async::deallocate leaving the new array as it was constructed.
deallocateNoCopy(a, newSize) ==
    [a EXCEPT !.tasks = newArray(newSize), !.m_size = newSize]

\* Async::deallocate
deallocate(a, newSize) ==
    LET newTasks == [i \in 0 .. newSize - 1 |-> assign(Default, a.tasks[i])]
    IN  [a EXCEPT !.tasks = newTasks, !.m_size = newSize]

\* The inner loop of Async::sort: iii runs from its start to curr_size - 1.
RECURSIVE scan(_, _, _, _)
scan(arr, iii, smallestIndex, n) ==
    IF iii >= n THEN smallestIndex
    ELSE IF arr[iii].delay < arr[smallestIndex].delay
         THEN scan(arr, iii + 1, iii, n)
         ELSE scan(arr, iii + 1, smallestIndex, n)

\* The outer loop of Async::sort.  smallestIndex is declared before the loop
\* and is carried from one pass to the next.
RECURSIVE sortFrom(_, _, _, _)
sortFrom(arr, currentIndex, smallestIndex, n) ==
    IF currentIndex >= n - 1 THEN arr
    ELSE LET s == scan(arr, currentIndex, smallestIndex, n)
         IN  IF currentIndex # s
             THEN sortFrom(swapSlots(arr, currentIndex, s), currentIndex + 1, s, n)
             ELSE sortFrom(arr, currentIndex + 1, s, n)

\* Async::sort
sort(a) ==
    IF a.curr_size = 0 THEN a
    ELSE [a EXCEPT !.tasks = sortFrom(a.tasks, 0, 0, a.curr_size)]

\* Async::offsetDelayBy leaving a delay smaller than the offset as it is.
offsetDelayByNoClamp(a, offsetDelay) ==
    [a EXCEPT !.tasks = [i \in DOMAIN a.tasks |->
        IF i < a.curr_size /\ a.tasks[i].delay >= offsetDelay
        THEN [a.tasks[i] EXCEPT !.delay = a.tasks[i].delay - offsetDelay]
        ELSE a.tasks[i]]]

\* Async::offsetDelayBy with its loop started at slot 1.
offsetDelayByFromOne(a, offsetDelay) ==
    [a EXCEPT !.tasks = [i \in DOMAIN a.tasks |->
        IF 1 <= i /\ i < a.curr_size
        THEN IF a.tasks[i].delay >= offsetDelay
             THEN [a.tasks[i] EXCEPT !.delay = a.tasks[i].delay - offsetDelay]
             ELSE [a.tasks[i] EXCEPT !.delay = 0]
        ELSE a.tasks[i]]]

\* Async::offsetDelayBy
offsetDelayBy(a, offsetDelay) ==
    [a EXCEPT !.tasks = [i \in DOMAIN a.tasks |->
        IF i < a.curr_size
        THEN IF a.tasks[i].delay >= offsetDelay
             THEN [a.tasks[i] EXCEPT !.delay = a.tasks[i].delay - offsetDelay]
             ELSE [a.tasks[i] EXCEPT !.delay = 0]
        ELSE a.tasks[i]]]

\* Async::add with the ceiling tested by > in place of >=.
addOffByOne(a, fw) ==
    IF a.curr_size > MAX_FUNCTIONARRAY_SIZE THEN a
    ELSE LET b == IF a.curr_size >= a.m_size THEN allocate(a, a.m_size * 2) ELSE a
         IN  [b EXCEPT !.tasks[b.curr_size] = assign(b.tasks[b.curr_size], fw),
                       !.curr_size = b.curr_size + 1]

\* Async::add storing the task in the last slot when the registry is full.
addClampLast(a, fw) ==
    IF a.curr_size >= MAX_FUNCTIONARRAY_SIZE
    THEN [a EXCEPT !.tasks[a.curr_size - 1] = assign(a.tasks[a.curr_size - 1], fw)]
    ELSE LET b == IF a.curr_size >= a.m_size THEN allocate(a, a.m_size * 2) ELSE a
         IN  [b EXCEPT !.tasks[b.curr_size] = assign(b.tasks[b.curr_size], fw),
                       !.curr_size = b.curr_size + 1]

\* Async::add growing the array by one slot in place of doubling it.
addGrowByOne(a, fw) ==
    IF a.curr_size >= MAX_FUNCTIONARRAY_SIZE THEN a
    ELSE LET b == IF a.curr_size >= a.m_size THEN allocate(a, a.m_size + 1) ELSE a
         IN  [b EXCEPT !.tasks[b.curr_size] = assign(b.tasks[b.curr_size], fw),
                       !.curr_size = b.curr_size + 1]

\* Async::add
add(a, fw) ==
    IF a.curr_size >= MAX_FUNCTIONARRAY_SIZE THEN a
    ELSE LET b == IF a.curr_size >= a.m_size THEN allocate(a, a.m_size * 2) ELSE a
         IN  [b EXCEPT !.tasks[b.curr_size] = assign(b.tasks[b.curr_size], fw),
                       !.curr_size = b.curr_size + 1]

\* Async::remove dropping the last live slot whatever the index.
removeLast(a, index) ==
    IF index >= a.curr_size \/ index < 0 THEN a
    ELSE LET c == sort([a EXCEPT !.curr_size = a.curr_size - 1])
         IN  IF c.curr_size < (c.m_size \div 2)
             THEN deallocate(c, c.m_size \div 2) ELSE c

\* Async::remove sorting the registry before the index is tested.
removeSortFirst(a, index) ==
    IF index >= a.curr_size \/ index < 0 THEN sort(a)
    ELSE LET temp == a.tasks[a.curr_size - 1]
             p == swap(temp, a.tasks[index])
             b == [a EXCEPT !.tasks[index] = p[2], !.curr_size = a.curr_size - 1]
             c == sort(b)
         IN  IF c.curr_size < (c.m_size \div 2)
             THEN deallocate(c, c.m_size \div 2) ELSE c

\* Async::remove shrinking the array as soon as it is half empty.
removeShrinkEager(a, index) ==
    IF index >= a.curr_size \/ index < 0 THEN a
    ELSE LET temp == a.tasks[a.curr_size - 1]
             p == swap(temp, a.tasks[index])
             b == [a EXCEPT !.tasks[index] = p[2], !.curr_size = a.curr_size - 1]
             c == sort(b)
         IN  IF c.curr_size <= (c.m_size \div 2)
             THEN deallocate(c, c.m_size \div 2) ELSE c

\* Async::remove without the shrink of the array.
removeNoShrink(a, index) ==
    IF index >= a.curr_size \/ index < 0 THEN a
    ELSE LET temp == a.tasks[a.curr_size - 1]
             p == swap(temp, a.tasks[index])
             b == [a EXCEPT !.tasks[index] = p[2], !.curr_size = a.curr_size - 1]
         IN  sort(b)

\* Async::remove: temp is a copy of the last live task; after temp.swap the
\* slot at index holds that copy and temp, the removed task, is destroyed
\* (its destructor only clears temp's own callback pointer).
remove(a, index) ==
    IF index >= a.curr_size \/ index < 0 THEN a
    ELSE LET temp == a.tasks[a.curr_size - 1]
             p == swap(temp, a.tasks[index])
             b == [a EXCEPT !.tasks[index] = p[2], !.curr_size = a.curr_size - 1]
             c == sort(b)
         IN  IF c.curr_size < (c.m_size \div 2)
             THEN deallocate(c, c.m_size \div 2) ELSE c

\* The while condition of run_until_complete.
loopCondition(a) == a.curr_size > 0

\* The break test of run_until_complete, with the last task left behind.
loopBreakEarly(a) == a.curr_size <= 1

\* The break test of run_until_complete, after the sort.
loopBreak(a) == a.curr_size = 0

\* Async::size
size(a) == a.curr_size

\* Async::max_size
max_size(a) == a.m_size

\* run_until_complete, from the callback's return on, without the sort
\* that follows a reschedule.
executeNoSort(a, returnValue) ==
    IF returnValue > 0
    THEN [a EXCEPT !.tasks[0] = [a.tasks[0] EXCEPT !.delay = returnValue,
                                                  !.step = a.tasks[0].step + 1]]
    ELSE remove(a, 0)

\* run_until_complete, from the callback's return to the sort: the head is
\* rescheduled or removed, then the registry is sorted.
execute(a, returnValue) ==
    sort(IF returnValue > 0
         THEN [a EXCEPT !.tasks[0] = [a.tasks[0] EXCEPT !.delay = returnValue,
                                                       !.step = a.tasks[0].step + 1]]
         ELSE remove(a, 0))

\* run_until_complete, after the break test: the elapsed time against the
\* head's delay, then continue, or wait and offset.
timing(a, time_spent) ==
    IF time_spent >= a.tasks[0].delay
    THEN offsetDelayBy(a, time_spent)
    ELSE offsetDelayBy(a, a.tasks[0].delay - time_spent)

\* --------------------------------------------------------- the environment
\* What a callback may return: 0 ends the task, a positive value is its next
\* delay in microseconds.  "once" returns 0 at its first invocation; "f" and
\* "g" return 0 at their MaxStep-th invocation at the latest (calls is the
\* number of invocations the callback has seen before this one).
callback(fn, calls) ==
    IF fn = "once" \/ calls + 1 >= MaxStep THEN {0} ELSE 0 .. MaxDelay

\* The invocations of this run that went to the task with id i.
Invocations(i) == SelectSeq(trace, LAMBDA t : t.id = i)

\* The live tasks, slot 0 first.
Live(a) == [i \in 1 .. a.curr_size |-> a.tasks[i - 1]]

LiveIds == {tasks[i].id : i \in 0 .. curr_size - 1}

FreeId == CHOOSE i \in 1 .. MaxTasks : i \notin LiveIds /\ \A j \in 1 .. i - 1 : j \in LiveIds

\* The indices a caller passes to remove: all of -1 .. curr_size for a small
\* registry, the ends and the middle for a large one.
RemoveIndices ==
    IF curr_size <= MaxTasks THEN -1 .. curr_size
    ELSE {-1, 0, curr_size \div 2, curr_size - 1, curr_size}

Op(name, index, ret, e, note) ==
    [op |-> name, index |-> index, ret |-> ret, e |-> e, note |-> note]

Set(a) ==
    /\ tasks' = a.tasks
    /\ curr_size' = a.curr_size
    /\ m_size' = a.m_size

\* ------------------------------------------------------------------ state
Init ==
    /\ m_size = 1
    /\ curr_size = 0
    /\ tasks = newArray(1)
    /\ pc = "idle"
    /\ start = <<>>
    /\ trace = <<>>
    /\ last = Op("new", 0, 0, 0, "")
    /\ addsOnly = 0

\* A caller's add(fw): what it did is noted in last.
AddCall(fw) ==
    /\ pc = "idle"
    /\ \E b \in {add(Self, fw)} :
        /\ Set(b)
        /\ last' = Op("add",
                      IF b.curr_size = curr_size THEN -1 ELSE curr_size,
                      0, 0,
                      IF b.curr_size = curr_size THEN "dropped"
                      ELSE IF b.m_size # m_size THEN "grew" ELSE "")
        /\ addsOnly' = IF addsOnly >= 0 /\ addsOnly <= MAX_FUNCTIONARRAY_SIZE
                       THEN addsOnly + 1 ELSE -1
        /\ start' = <<>>
        /\ trace' = <<>>
        /\ UNCHANGED pc

\* The callback a caller registers under id i: two callbacks, taken in turn.
FuncOf(i) == IF i % 2 = 1 THEN "f" ELSE "g"

\* add of a task with an id no live task has.
Add ==
    /\ curr_size < MaxTasks
    /\ \E d \in 0 .. MaxDelay : AddCall(NewTask(FuncOf(FreeId), d, FreeId))

\* add of one of many like tasks: one-shot callbacks, id 0 and delay 0, so
\* that the registry can be filled to its ceiling; a task with a delay of
\* its own is offered once the registry is full.
AddBulk ==
    \E d \in 0 .. MaxDelay :
        /\ d > 0 => curr_size >= MAX_FUNCTIONARRAY_SIZE
        /\ AddCall(NewTask("once", d, 0))

Remove ==
    /\ pc = "idle"
    /\ \E index \in RemoveIndices :
        \E b \in {remove(Self, index)} :
            /\ Set(b)
            /\ last' = Op("remove", index, 0, 0,
                          IF b.curr_size = curr_size THEN "noop"
                          ELSE IF b.m_size # m_size THEN "shrank" ELSE "")
    /\ addsOnly' = -1
    /\ start' = <<>>
    /\ trace' = <<>>
    /\ UNCHANGED pc

Sort ==
    /\ pc = "idle"
    /\ \E b \in {sort(Self)} : Set(b)
    /\ last' = Op("sort", 0, 0, 0, "")
    /\ addsOnly' = -1
    /\ start' = <<>>
    /\ trace' = <<>>
    /\ UNCHANGED pc

OffsetDelayBy ==
    /\ pc = "idle"
    /\ \E x \in 0 .. MaxElapsed :
        /\ \E b \in {offsetDelayBy(Self, x)} : Set(b)
        /\ last' = Op("offset", x, 0, 0, "")
    /\ addsOnly' = -1
    /\ start' = <<>>
    /\ trace' = <<>>
    /\ UNCHANGED pc

\* The call of run_until_complete: the first test of the while condition.
RunCall ==
    /\ pc = "idle"
    /\ pc' = IF loopCondition(Self) THEN "exec" ELSE "idle"
    /\ start' = Live(Self)
    /\ trace' = <<>>
    /\ last' = Op("run", 0, 0, 0, IF loopCondition(Self) THEN "entered" ELSE "empty")
    /\ addsOnly' = -1
    /\ UNCHANGED <<tasks, curr_size, m_size>>

\* The callback of slot 0 runs and returns r.
RunExecute ==
    /\ pc = "exec"
    /\ \E r \in callback(tasks[0].func, Len(Invocations(tasks[0].id))) :
        /\ \E b \in {execute(Self, r)} : Set(b)
        /\ trace' = Append(trace, [id |-> tasks[0].id, step |-> tasks[0].step, ret |-> r])
        /\ last' = Op("exec", tasks[0].id, r, 0, IF r > 0 THEN "rescheduled" ELSE "removed")
    /\ pc' = "timing"
    /\ UNCHANGED <<start, addsOnly>>

\* The break test, then micros() - begin = e against the head's delay.
RunTiming ==
    /\ pc = "timing"
    /\ IF loopBreak(Self)
       THEN /\ pc' = "idle"
            /\ last' = Op("return", 0, 0, 0, "")
            /\ UNCHANGED <<tasks, curr_size, m_size>>
       ELSE /\ pc' = "exec"
            /\ \E e \in 0 .. MaxElapsed :
                /\ \E b \in {timing(Self, e)} : Set(b)
                /\ last' = Op("timing", 0, 0, e,
                              IF e >= tasks[0].delay THEN "nosleep" ELSE "slept")
    /\ UNCHANGED <<start, trace, addsOnly>>

Next ==
    \/ Add
    \/ Remove
    \/ Sort
    \/ OffsetDelayBy
    \/ RunCall
    \/ RunExecute
    \/ RunTiming

Spec == Init /\ [][Next]_vars

\* Registries built by add alone, and the runs over them.
NextRun ==
    \/ Add
    \/ RunCall
    \/ RunExecute
    \/ RunTiming

\* The run loop is the only thread: once called it keeps taking its steps
\* (the callback returns, wait returns).
FairSpec == Init /\ [][NextRun]_vars /\ WF_vars(RunExecute) /\ WF_vars(RunTiming)

\* The step a callback is handed, followed up to MaxStep: the scheduler
\* reads a task's step only to hand it on and to add one to it, so a run
\* of any length is followed with the steps held at MaxStep.
capStep(a) ==
    [a EXCEPT !.tasks = [i \in DOMAIN a.tasks |->
        IF a.tasks[i].step > MaxStep
        THEN [a.tasks[i] EXCEPT !.step = MaxStep]
        ELSE a.tasks[i]]]

\* The call of run_until_complete, with nothing noted of the registry it
\* starts from.
RunCallAny ==
    /\ pc = "idle"
    /\ pc' = IF loopCondition(Self) THEN "exec" ELSE "idle"
    /\ last' = Op("run", 0, 0, 0, IF loopCondition(Self) THEN "entered" ELSE "empty")
    /\ addsOnly' = -1
    /\ UNCHANGED <<tasks, curr_size, m_size, start, trace>>

\* The callback of slot 0 runs and returns r, with no limit on the number
\* of times it returns a positive value; the invocation is noted in last
\* alone.
RunExecuteAny ==
    /\ pc = "exec"
    /\ \E r \in 0 .. MaxDelay :
        /\ \E c \in {execute(Self, r)} : \E b \in {capStep(c)} : Set(b)
        /\ last' = Op("exec", tasks[0].id, r, 0, IF r > 0 THEN "rescheduled" ELSE "removed")
    /\ pc' = "timing"
    /\ UNCHANGED <<start, trace, addsOnly>>

\* Registries built by add, and the runs over them with callbacks that may
\* go on for ever.
NextAny ==
    \/ Add
    \/ RunCallAny
    \/ RunExecuteAny
    \/ RunTiming

\* The run loop keeps taking its steps, as in FairSpec.
FairSpecAny == Init /\ [][NextAny]_vars /\ WF_vars(RunExecuteAny) /\ WF_vars(RunTiming)

NextCap ==
    \/ AddBulk
    \/ Remove
    \/ Sort
    \/ OffsetDelayBy
    \/ RunCall
    \/ RunExecute
    \/ RunTiming

\* The same scheduler filled to its ceiling with like tasks.
SpecCap == Init /\ [][NextCap]_vars

\* ------------------------------------------------------------ properties
LiveSlots == 0 .. curr_size - 1

LiveSet == {tasks[i] : i \in LiveSlots}

Sorted == \A i \in 0 .. curr_size - 2 : tasks[i].delay <= tasks[i + 1].delay

StartIds == {start[k].id : k \in 1 .. Len(start)}

\* The delay the task with id i had when run_until_complete was called.
StartDelay(i) == start[CHOOSE k \in 1 .. Len(start) : start[k].id = i].delay

IsPowerOfTwo(n) == \E k \in 0 .. n : 2 ^ k = n

\* C1: in run_until_complete, at the start of every loop iteration (the
\* first one after a sequence of adds included) the task in slot 0, the one
\* invoked, has a delay no greater than that of any other live task.
C1_HeadIsEarliest ==
    pc = "exec" => \A i \in LiveSlots : tasks[0].delay <= tasks[i].delay

\* C2: after any call of sort() every adjacent pair of live tasks satisfies
\* delay(i) <= delay(i+1).
C2_SortedAfterSort ==
    last.op = "sort" => Sorted

\* C3: when every callback returns 0 at its first invocation,
\* run_until_complete invokes the tasks in non-decreasing order of the
\* delays they had when it was called.
C3_InvokedInDelayOrder ==
    (\A k \in 1 .. Len(trace) : trace[k].ret = 0)
        => \A i, j \in 1 .. Len(trace) :
              i < j => StartDelay(trace[i].id) <= StartDelay(trace[j].id)

\* C4: sort() is idempotent: a second sort() right after a first one leaves
\* the task sequence as the first one left it.
C4_SortIdempotent ==
    [][(last.op = "sort" /\ last'.op = "sort") => tasks' = tasks]_vars

\* C5: when every callback returns 0 after finitely many invocations,
\* run_until_complete eventually returns; it returns only when the registry
\* is empty; called on an empty registry it returns at once and invokes no
\* callback.
C5_RunTerminates ==
    /\ (pc # "idle") ~> (pc = "idle")
    /\ [][(pc # "idle" /\ pc' = "idle") => curr_size' = 0]_vars
    /\ [][(pc = "idle" /\ curr_size = 0 /\ last'.op = "run")
            => (pc' = "idle" /\ trace' = <<>> /\ curr_size' = 0)]_vars

\* A run that went through reschedules has returned.
C5_Witness ==
    /\ pc = "idle"
    /\ last.op = "return"
    /\ Len(trace) > Len(start)
    /\ Len(start) >= 2

\* C6: a task whose callback returns a positive value at its first k-1
\* invocations and 0 at its k-th is invoked exactly k times, and the steps
\* handed to it are 1, 2, ..., k in this order.
C6_StepsInSequence ==
    \A i \in StartIds :
        LET inv == Invocations(i)
        IN  /\ \A k \in 1 .. Len(inv) :
                  /\ inv[k].step = k
                  /\ (inv[k].ret = 0 => k = Len(inv))
            /\ (\E t \in LiveSet : t.id = i)
                  <=> (pc # "idle" /\ \A k \in 1 .. Len(inv) : inv[k].ret > 0)
            /\ (pc = "idle" /\ last.op = "return")
                  => (Len(inv) >= 1 /\ inv[Len(inv)].ret = 0)

\* Two tasks have each been invoked twice and the run has returned.
C6_Witness ==
    /\ pc = "idle"
    /\ last.op = "return"
    /\ \E i, j \in StartIds : i # j /\ Len(Invocations(i)) = 2 /\ Len(Invocations(j)) = 2

\* C7: in one iteration, a head whose callback returns r > 0 stays in the
\* registry with delay r and its step increased by one; a head whose
\* callback returns 0 is removed, and it alone; every other task keeps its
\* callback, step and id.
C7_ExecuteEffect ==
    [][(pc = "exec" /\ pc' = "timing") =>
        LET head == tasks[0]
            r == last'.ret
            new == {tasks'[i] : i \in 0 .. curr_size' - 1}
        IN  /\ r > 0 => /\ curr_size' = curr_size
                        /\ [head EXCEPT !.delay = r, !.step = head.step + 1] \in new
            /\ r = 0 => /\ curr_size' = curr_size - 1
                        /\ \A t \in new : t.id # head.id
            /\ \A t \in LiveSet \ {head} :
                   \E u \in new : u.func = t.func /\ u.step = t.step /\ u.id = t.id
            /\ Cardinality({t.id : t \in new}) = curr_size'
      ]_vars

\* A head has been removed from among three tasks after one was rescheduled.
C7_Witness ==
    /\ pc = "timing"
    /\ last.op = "exec"
    /\ last.ret = 0
    /\ curr_size = 2
    /\ \E k \in 1 .. Len(trace) : trace[k].ret > 0

\* C8: after any sequence of add, remove, sort, offsetDelayBy and
\* run_until_complete steps, 0 <= curr_size <= m_size <= 32.
C8_SizeWithinCapacity ==
    /\ 0 <= curr_size
    /\ curr_size <= m_size
    /\ m_size <= MAX_FUNCTIONARRAY_SIZE

\* The registry, full at the ceiling, has just refused an add, and before
\* that it had been emptied in part.
C8_Witness ==
    /\ curr_size = MAX_FUNCTIONARRAY_SIZE
    /\ m_size = MAX_FUNCTIONARRAY_SIZE
    /\ last.note = "dropped"
    /\ addsOnly = -1

\* C9: after k add calls on a fresh scheduler, k <= 32, size() is k and
\* max_size() is a power of two no less than size().
C9_SizeCountsAdds ==
    (addsOnly >= 0 /\ addsOnly <= MAX_FUNCTIONARRAY_SIZE)
        => /\ size(Self) = addsOnly
           /\ IsPowerOfTwo(max_size(Self))
           /\ max_size(Self) >= size(Self)

\* Thirty-two adds on a fresh scheduler.
C9_Witness ==
    /\ addsOnly = MAX_FUNCTIONARRAY_SIZE
    /\ last.op = "add"
    /\ last.note # "dropped"

\* C10: add on a registry of 32 tasks is a no-op: size, capacity and the
\* stored tasks are unchanged; so after 33 adds size() is 32.
C10_AddAtCeilingIsNoOp ==
    /\ [](addsOnly = MAX_FUNCTIONARRAY_SIZE + 1 => size(Self) = MAX_FUNCTIONARRAY_SIZE)
    /\ [][(pc = "idle" /\ last'.op = "add" /\ curr_size = MAX_FUNCTIONARRAY_SIZE)
            => (tasks' = tasks /\ curr_size' = curr_size /\ m_size' = m_size)]_vars

\* The thirty-third add on a fresh scheduler has been refused.
C10_Witness ==
    /\ addsOnly = MAX_FUNCTIONARRAY_SIZE + 1
    /\ last.op = "add"
    /\ last.note = "dropped"

\* C11: remove(index) with index < 0 or index >= curr_size, on an empty
\* registry too, leaves curr_size, m_size and the task sequence, its order
\* included, as they were.
C11_RemoveOutOfRangeIsNoOp ==
    [][(pc = "idle" /\ last'.op = "remove"
            /\ (last'.index < 0 \/ last'.index >= curr_size))
        => (tasks' = tasks /\ curr_size' = curr_size /\ m_size' = m_size)]_vars

\* remove has been called with index = curr_size on two tasks that are not
\* in the order of their delays.
C11_Witness ==
    /\ last.op = "remove"
    /\ last.note = "noop"
    /\ last.index = curr_size
    /\ curr_size >= 2
    /\ ~Sorted

\* How many of the first n slots of arr hold the record t.
Count(arr, n, t) == Cardinality({i \in 0 .. n - 1 : arr[i] = t})

\* C12: remove(i) with 0 <= i < n on a registry of n tasks leaves n - 1
\* live tasks which are, as a multiset of (callback, delay, step, id)
\* records, the former live tasks less the one that was at index i, whether
\* or not the capacity shrinks.
C12_RemoveTakesOneOut ==
    [][(pc = "idle" /\ last'.op = "remove"
            /\ 0 <= last'.index /\ last'.index < curr_size)
        => /\ curr_size' = curr_size - 1
           /\ \A t \in LiveSet \cup {tasks'[i] : i \in 0 .. curr_size' - 1} :
                  Count(tasks', curr_size', t)
                      = Count(tasks, curr_size, t)
                          - (IF t = tasks[last'.index] THEN 1 ELSE 0)]_vars

\* The first of two tasks has been removed and the capacity has shrunk from
\* four slots to two.
C12_Witness ==
    /\ last.op = "remove"
    /\ last.note = "shrank"
    /\ last.index = 0
    /\ curr_size = 1
    /\ m_size = 2

\* d - x, saturating at zero.
Minus(d, x) == IF d - x > 0 THEN d - x ELSE 0

\* C13: offsetDelayBy(x) takes the delay d of every live task to
\* max(0, d - x), and offsetDelayBy(x1) followed by offsetDelayBy(x2) leaves
\* the delays that one offsetDelayBy(x1 + x2) leaves.
C13_OffsetSaturatesAndComposes ==
    /\ [][(pc = "idle" /\ last'.op = "offset")
            => \A i \in LiveSlots :
                   tasks'[i].delay = Minus(tasks[i].delay, last'.index)]_vars
    /\ [](\A x1, x2 \in 0 .. MaxElapsed :
             offsetDelayBy(offsetDelayBy(Self, x1), x2)
                 = offsetDelayBy(Self, x1 + x2))

\* An offset of one or more has left one task at zero and another with some
\* of its delay.
C13_Witness ==
    /\ last.op = "offset"
    /\ last.index >= 1
    /\ \E i, j \in LiveSlots : tasks[i].delay = 0 /\ tasks[j].delay > 0

\* C14: in an iteration where the elapsed time e is less than the head's
\* delay d, the loop waits d - e and then takes every live delay down by d,
\* saturating at zero, so that the head's delay is 0 when the next iteration
\* starts.
C14_SleepOffsetsByHeadDelay ==
    [][(pc = "timing" /\ pc' = "exec" /\ last'.note = "slept")
        => /\ \A i \in LiveSlots :
                  tasks'[i].delay = Minus(tasks[i].delay, tasks[0].delay)
           /\ tasks'[0].delay = 0]_vars

\* C15: add on a registry of fewer than 32 tasks puts the new task in slot
\* curr_size and leaves every task that was live in its slot with its four
\* fields as they were; the capacity doubles exactly when curr_size = m_size
\* before the append, and is unchanged otherwise.
C15_AddAppends ==
    [][(pc = "idle" /\ last'.op = "add" /\ curr_size < MAX_FUNCTIONARRAY_SIZE)
        => /\ curr_size' = curr_size + 1
           /\ last'.index = curr_size
           /\ \E d \in 0 .. MaxDelay :
                  tasks'[curr_size] = NewTask(FuncOf(FreeId), d, FreeId)
           /\ \A i \in LiveSlots : tasks'[i] = tasks[i]
           /\ m_size' = IF curr_size = m_size THEN 2 * m_size ELSE m_size]_vars

\* A third task has been added to two of different delays that filled the
\* array, which has grown to four slots.
C15_Witness ==
    /\ last.op = "add"
    /\ last.note = "grew"
    /\ last.index = 2
    /\ curr_size = 3
    /\ m_size = 4
    /\ tasks[0].delay # tasks[1].delay

\* C16: after a remove that took a task out (a caller's, or the run loop's
\* remove(0)), the capacity is the former m_size / 2 exactly when the
\* decremented curr_size is below the former m_size / 2, and is unchanged
\* otherwise; one remove halves the capacity once at most.
C16_RemoveHalvesOnce ==
    [][(\/ (pc = "idle" /\ last'.op = "remove"
                /\ 0 <= last'.index /\ last'.index < curr_size)
        \/ (pc = "exec" /\ last'.op = "exec" /\ last'.ret = 0))
        => /\ curr_size' = curr_size - 1
           /\ m_size' = IF curr_size - 1 < m_size \div 2
                        THEN m_size \div 2 ELSE m_size]_vars

\* A remove has taken the registry from four tasks in eight slots to three
\* tasks in four slots.
C16_Witness ==
    /\ last.op = "remove"
    /\ last.note = "shrank"
    /\ curr_size = 3
    /\ m_size = 4

\* The registry b holds in its live slots the records a holds in its own,
\* each as many times, and has a's size and capacity.
Permuted(a, b) ==
    /\ b.curr_size = a.curr_size
    /\ b.m_size = a.m_size
    /\ DOMAIN b.tasks = DOMAIN a.tasks
    /\ \A i \in 0 .. a.curr_size - 1 :
           /\ Count(b.tasks, b.curr_size, a.tasks[i]) = Count(a.tasks, a.curr_size, a.tasks[i])
           /\ Count(a.tasks, a.curr_size, b.tasks[i]) = Count(b.tasks, b.curr_size, b.tasks[i])

\* C17: sort() only permutes the live tasks: the multiset of (callback,
\* delay, step, id) records in slots 0 .. curr_size - 1 is the same before
\* and after, a task's four fields move together, and curr_size and m_size
\* are unchanged.  Stated of each sort() a caller makes and of sort()
\* applied to every registry the program reaches, those inside a run, where
\* the steps differ, included.
C17_SortPermutes ==
    /\ [][(pc = "idle" /\ last'.op = "sort")
            => Permuted(Self, [tasks |-> tasks', curr_size |-> curr_size',
                               m_size |-> m_size'])]_vars
    /\ [](Permuted(Self, sort(Self)))

\* sort() has been called on three tasks of three different delays and has
\* moved some of them: they are not in the order of their delays.
C17_Witness ==
    /\ last.op = "sort"
    /\ curr_size = 3
    /\ Cardinality({tasks[i].delay : i \in LiveSlots}) = 3
    /\ ~Sorted

\* C18: during run_until_complete no task starves: a task that is in the
\* registry is eventually invoked, also when other tasks reschedule
\* themselves for ever by returning a positive value each time, whatever
\* the elapsed times read.
C18_NoStarvation ==
    \A i \in 1 .. MaxTasks :
        (pc # "idle" /\ i \in LiveIds) ~> (last.op = "exec" /\ last.index = i)

\* The third task has been invoked and stays; each of the three tasks has
\* been invoked and has rescheduled itself MaxStep - 1 times or more.
C18_Witness ==
    /\ pc = "timing"
    /\ last.op = "exec"
    /\ last.index = 3
    /\ last.ret > 0
    /\ curr_size = 3
    /\ \A i \in LiveSlots : tasks[i].step = MaxStep

\* C19: offsetDelayBy keeps the order: live tasks that are in ascending
\* order of delay before offsetDelayBy(x) are in ascending order after it;
\* it changes no task's slot, callback, step or id, and neither curr_size
\* nor m_size.  Stated of a caller's offsetDelayBy and of the one the run
\* loop makes before it reads slot 0 again.
C19_OffsetKeepsOrder ==
    [][((pc = "idle" /\ last'.op = "offset") \/ (pc = "timing" /\ pc' = "exec"))
        => /\ Sorted => Sorted'
           /\ curr_size' = curr_size
           /\ m_size' = m_size
           /\ DOMAIN tasks' = DOMAIN tasks
           /\ \A i \in DOMAIN tasks :
                  /\ tasks'[i].func = tasks[i].func
                  /\ tasks'[i].step = tasks[i].step
                  /\ tasks'[i].id = tasks[i].id]_vars

\* offsetDelayBy(1) has left three tasks with the delays 0, 1, 1: they had
\* 0 or 1, then 2 and 2, and were in order.
C19_Witness ==
    /\ last.op = "offset"
    /\ last.index = 1
    /\ curr_size = 3
    /\ tasks[0].delay = 0
    /\ tasks[1].delay = 1
    /\ tasks[2].delay = 1

\* C20: after any sequence of add and remove calls, the run loop's removals
\* included, m_size >= 1 and curr_size >= m_size / 2 (integer division):
\* the capacity never drops to zero and never exceeds 2 * curr_size + 1.
C20_CapacityTracksSize ==
    /\ m_size >= 1
    /\ curr_size >= m_size \div 2
    /\ m_size <= 2 * curr_size + 1

\* A remove has left eight tasks in sixteen slots.
C20_Witness ==
    /\ last.op = "remove"
    /\ last.note = ""
    /\ curr_size = 8
    /\ m_size = 16

====
